---------------------------- MODULE Spec2Model ----------------------------
(***************************************************************************)
(* Weekly plan generation of the meal planner (recipes/services.py and     *)
(* the weekly_plan view of recipes/views.py) over the Meal/Recipe tables   *)
(* of recipes/models.py.                                                   *)
(*                                                                         *)
(* A date is its proleptic Gregorian ordinal (date.toordinal()), a string  *)
(* is the sequence of its characters, and an Optional value is a sequence  *)
(* of length at most one: <<>> is None, <<v>> is the value v.              *)
(***************************************************************************)
EXTENDS Integers, Sequences, FiniteSets, TLC

VARIABLES
    meals,      \* Meal table: live pk -> [name, recipe]
    recipes,    \* Recipe table: live pk -> [name]
    mealSeq,    \* last primary key handed out by the Meal table
    recipeSeq,  \* last primary key handed out by the Recipe table
    view,       \* frame of the weekly_plan request being served
    gen,        \* frame of the generate_weekly_plan call in progress
    call,       \* last direct call of start_of_week / parse_week_start
    prev        \* start and labels of the previous generate_weekly_plan call

vars == <<meals, recipes, mealSeq, recipeSeq, view, gen, call, prev>>

-----------------------------------------------------------------------------
(* Bounds of the model *)

MaxMealRows == 1       \* Meal rows ever inserted
MaxRecipeRows == 1     \* Recipe rows ever inserted
MaxListLen == 2        \* length of a meal list handed to the generator directly

-----------------------------------------------------------------------------
(* Optional values and call results *)

None == <<>>
Some(v) == <<v>>

Returned(v) == [exc |-> "", val |-> Some(v)]
Raised(e) == [exc |-> e, val |-> None]

-----------------------------------------------------------------------------
(* datetime.date: calendar arithmetic *)

IsLeap(y) == y % 4 = 0 /\ (y % 100 # 0 \/ y % 400 = 0)

DaysInMonth(y, m) ==
    IF m = 2 THEN (IF IsLeap(y) THEN 29 ELSE 28)
    ELSE IF m \in {4, 6, 9, 11} THEN 30 ELSE 31

DaysBeforeYear(y) ==
    LET y1 == y - 1 IN y1 * 365 + (y1 \div 4) - (y1 \div 100) + (y1 \div 400)

RECURSIVE DaysBeforeMonth(_, _)
DaysBeforeMonth(y, m) ==
    IF m = 1 THEN 0 ELSE DaysBeforeMonth(y, m - 1) + DaysInMonth(y, m - 1)

Ymd2Ord(y, m, d) == DaysBeforeYear(y) + DaysBeforeMonth(y, m) + d

MinOrdinal == Ymd2Ord(1, 1, 1)
MaxOrdinal == Ymd2Ord(9999, 12, 31)

Ord2Ymd(n) ==
    LET n0 == n - 1
        di400 == DaysBeforeYear(401)
        di100 == DaysBeforeYear(101)
        di4 == DaysBeforeYear(5)
        n400 == n0 \div di400
        r400 == n0 % di400
        n100 == r400 \div di100
        r100 == r400 % di100
        n4 == r100 \div di4
        r4 == r100 % di4
        n1 == r4 \div 365
        r1 == r4 % 365
        year == n400 * 400 + 1 + n100 * 100 + n4 * 4 + n1
    IN  IF n1 = 4 \/ n100 = 4
        THEN [y |-> year - 1, m |-> 12, d |-> 31]
        ELSE LET month == CHOOSE m \in 1..12 :
                              /\ DaysBeforeMonth(year, m) <= r1
                              /\ r1 < DaysBeforeMonth(year, m) + DaysInMonth(year, m)
             IN  [y |-> year, m |-> month, d |-> r1 - DaysBeforeMonth(year, month) + 1]

\* date.weekday(): Monday is 0, Sunday is 6
Weekday(date) == (date + 6) % 7

\* date - timedelta(days) and date + timedelta(days): the result must be a date
DateShift(date, days) ==
    IF date + days >= MinOrdinal /\ date + days <= MaxOrdinal
    THEN Returned(date + days)
    ELSE Raised("OverflowError")

-----------------------------------------------------------------------------
(* Strings *)

Digits == <<"0", "1", "2", "3", "4", "5", "6", "7", "8", "9">>

IsDigit(c) == \E k \in 1..10 : Digits[k] = c

DigitVal(c) == (CHOOSE k \in 1..10 : Digits[k] = c) - 1

AllDigits(s) == \A k \in 1..Len(s) : IsDigit(s[k])

RECURSIVE ParseInt(_)
ParseInt(s) ==
    IF s = <<>> THEN 0
    ELSE ParseInt(SubSeq(s, 1, Len(s) - 1)) * 10 + DigitVal(s[Len(s)])

\* "%0<width>d"
RECURSIVE ZeroPad(_, _)
ZeroPad(n, width) ==
    IF width = 0 THEN <<>>
    ELSE Append(ZeroPad(n \div 10, width - 1), Digits[(n % 10) + 1])

\* date.isoformat(): "%04d-%02d-%02d"
IsoFormat(date) ==
    LET ymd == Ord2Ymd(date)
    IN  ZeroPad(ymd.y, 4) \o <<"-">> \o ZeroPad(ymd.m, 2) \o <<"-">> \o ZeroPad(ymd.d, 2)

\* date(year, month, day): the constructor's range checks
MakeDate(y, m, d) ==
    IF y >= 1 /\ y <= 9999 /\ m >= 1 /\ m <= 12 /\ d >= 1 /\ d <= DaysInMonth(y, m)
    THEN Returned(Ymd2Ord(y, m, d))
    ELSE Raised("ValueError")

\* date.fromisoformat(): YYYY-MM-DD and YYYYMMDD.  (The ISO week forms
\* YYYY-Www-D are not among the inputs of this model.)
FromIsoFormat(s) ==
    IF Len(s) = 10
    THEN IF /\ s[5] = "-" /\ s[8] = "-"
            /\ AllDigits(SubSeq(s, 1, 4))
            /\ AllDigits(SubSeq(s, 6, 7))
            /\ AllDigits(SubSeq(s, 9, 10))
         THEN MakeDate(ParseInt(SubSeq(s, 1, 4)), ParseInt(SubSeq(s, 6, 7)),
                       ParseInt(SubSeq(s, 9, 10)))
         ELSE Raised("ValueError")
    ELSE IF Len(s) = 8 /\ AllDigits(s)
    THEN MakeDate(ParseInt(SubSeq(s, 1, 4)), ParseInt(SubSeq(s, 5, 6)),
                  ParseInt(SubSeq(s, 7, 8)))
    ELSE Raised("ValueError")

\* calendar.day_name
DayName ==
    << <<"M", "o", "n", "d", "a", "y">>,
       <<"T", "u", "e", "s", "d", "a", "y">>,
       <<"W", "e", "d", "n", "e", "s", "d", "a", "y">>,
       <<"T", "h", "u", "r", "s", "d", "a", "y">>,
       <<"F", "r", "i", "d", "a", "y">>,
       <<"S", "a", "t", "u", "r", "d", "a", "y">>,
       <<"S", "u", "n", "d", "a", "y">> >>

-----------------------------------------------------------------------------
(* recipes/services.py *)

\* mutant: the offset taken from isoweekday() (Monday is 1)
start_of_week_IsoWeekday(date) == DateShift(date, 0 - (Weekday(date) + 1))

start_of_week(date) == DateShift(date, 0 - Weekday(date))

\* mutant: the ValueError of fromisoformat is not caught
parse_week_start_Uncaught(param, today) ==
    IF param = None \/ param[1] = <<>>
    THEN DateShift(today, 0 - Weekday(today))
    ELSE FromIsoFormat(param[1])

\* mutant: a parsed date is moved to the Monday of its week
parse_week_start_Snapped(param, today) ==
    IF param = None \/ param[1] = <<>>
    THEN DateShift(today, 0 - Weekday(today))
    ELSE LET parsed == FromIsoFormat(param[1])
         IN  IF parsed.exc = "ValueError"
             THEN DateShift(today, 0 - Weekday(today))
             ELSE DateShift(parsed.val[1], 0 - Weekday(parsed.val[1]))

\* mutant: the fallback is today itself
parse_week_start_Today(param, today) ==
    IF param = None \/ param[1] = <<>>
    THEN Returned(today)
    ELSE LET parsed == FromIsoFormat(param[1])
         IN  IF parsed.exc = "ValueError" THEN Returned(today) ELSE parsed

\* param is an Optional string; "not param" holds of None and of ""
parse_week_start(param, today) ==
    IF param = None \/ param[1] = <<>>
    THEN start_of_week(today)
    ELSE LET parsed == FromIsoFormat(param[1])
         IN  IF parsed.exc = "ValueError" THEN start_of_week(today) ELSE parsed


\* plan entry i+1 is built for day start + i
PlanDays == 7

\* list(meals): a list or an evaluated QuerySet can be iterated again, an
\* iterator is exhausted by its first reading; rows is what the database
\* returns when a QuerySet is evaluated
IterRead(src, reads, rows) ==
    IF src.kind = "queryset" THEN rows
    ELSE IF src.kind = "iterator" /\ reads > 0 THEN <<>>
    ELSE src.data

\* mutant: None is always among the choices
Choices_WithNone(items) == Append([k \in 1..Len(items) |-> <<items[k]>>], <<>>)

\* mutant: a single meal is treated like no meal
Choices_NeedsTwo(items) ==
    IF Len(items) > 1 THEN [k \in 1..Len(items) |-> <<items[k]>>] ELSE << <<>> >>

\* choices = items if items else [None]
Choices(items) ==
    IF items # <<>> THEN [k \in 1..Len(items) |-> Some(items[k])] ELSE <<None>>

\* f"{calendar.day_name[day.weekday()]} ({day.isoformat()})"
Label(day) == DayName[Weekday(day) + 1] \o <<" ", "(">> \o IsoFormat(day) \o <<")">>

-----------------------------------------------------------------------------
(* Inputs *)

Params ==
    {None, Some(<<>>),
     Some(<<"n", "o", "t", "-", "a", "-", "d", "a", "t", "e">>),
     Some(<<"2", "0", "2", "4", "-", "0", "1", "-", "0", "3">>),
     Some(<<"2", "0", "2", "4", "0", "1", "0", "3">>),
     Some(<<"2", "0", "2", "4", "-", "0", "7", "-", "1", "4">>),
     Some(<<"2", "0", "2", "4", "-", "0", "2", "-", "2", "9">>),
     Some(<<"2", "0", "2", "3", "-", "0", "2", "-", "2", "9">>),
     Some(<<"2", "0", "2", "4", "-", "0", "2", "-", "3", "0">>),
     Some(<<"2", "0", "2", "4", "-", "1", "3", "-", "0", "1">>),
     Some(<<"2", "0", "2", "4", "-", "1", "-", "3">>),
     Some(<<"2", "0", "2", "4", "/", "0", "1", "/", "0", "3">>),
     Some(<<"0", "0", "0", "0", "-", "0", "1", "-", "0", "1">>),
     Some(<<"0", "0", "0", "1", "-", "0", "1", "-", "0", "1">>),
     Some(<<"9", "9", "9", "9", "-", "1", "2", "-", "3", "1">>),
     Some(<<"2", "0", "2", "4", "-", "0", "1", "-", "0", "3", "T">>)}

\* a whole week, month and year ends, leap days, date.min and date.max
Dates ==
    {Ymd2Ord(2024, 7, d) : d \in 8..14} \cup
    {Ymd2Ord(2024, 2, 29), Ymd2Ord(2024, 3, 1), Ymd2Ord(2023, 12, 31),
     Ymd2Ord(2024, 1, 1), Ymd2Ord(2000, 2, 29), Ymd2Ord(1900, 3, 1),
     Ymd2Ord(1, 1, 1), Ymd2Ord(1, 1, 7), Ymd2Ord(9999, 12, 26),
     Ymd2Ord(9999, 12, 31)}

GenStarts ==
    {Ymd2Ord(2024, 7, 8), Ymd2Ord(2024, 1, 3), Ymd2Ord(2024, 2, 26),
     Ymd2Ord(9999, 12, 25), Ymd2Ord(9999, 12, 28)}

\* a Meal instance is identified by its primary key (Model.__eq__)
SampleMeals == {1, 2}

MealLists == UNION {[1..n -> SampleMeals] : n \in 0..MaxListLen}

MealNames == <<"Dinner", "Lunch">>
RecipeNames == {"Pasta"}

-----------------------------------------------------------------------------
(* Frames *)

GenIdle ==
    [pc |-> "idle", caller |-> "", src |-> [kind |-> "list", data |-> <<>>],
     start |-> 0, items |-> <<>>, choices |-> <<>>, i |-> 0, plan |-> <<>>,
     reads |-> 0, exc |-> ""]

GenEnter(caller, src, start) ==
    [GenIdle EXCEPT !.pc = "materialize", !.caller = caller, !.src = src,
                    !.start = start]

ViewIdle ==
    [pc |-> "idle", param |-> None, today |-> 0, start |-> 0,
     before |-> <<>>, context |-> None, status |-> 0]

NoCall == [fn |-> "", param |-> None, date |-> 0, result |-> Raised("")]

-----------------------------------------------------------------------------
(* The database *)

Injective(f) == \A a, b \in DOMAIN f : f[a] = f[b] => a = b

NameRank(name) == CHOOSE k \in 1..Len(MealNames) : MealNames[k] = name

\* Meal.objects.select_related("recipe").all(): every row of the Meal table
\* in Meta.ordering = ["name"]; the order of equal names is the database's
QueryMeals ==
    {s \in [1..Cardinality(DOMAIN meals) -> DOMAIN meals] :
        /\ Injective(s)
        /\ \A a, b \in DOMAIN s :
               a < b => NameRank(meals[s[a]].name) <= NameRank(meals[s[b]].name)}

Remove(table, pk) == [p \in DOMAIN table \ {pk} |-> table[p]]

RecipeRefs == {None} \cup {Some(r) : r \in DOMAIN recipes}

Serving == view.pc # "idle" \/ gen.pc # "idle"

RecipeCreate(name) ==
    /\ ~Serving
    /\ recipeSeq < MaxRecipeRows
    /\ \A r \in DOMAIN recipes : recipes[r].name # name
    /\ recipeSeq' = recipeSeq + 1
    /\ recipes' = recipes @@ (recipeSeq' :> [name |-> name])
    /\ UNCHANGED <<meals, mealSeq, view, gen, call, prev>>

\* Meal.recipe is on_delete=SET_NULL
RecipeDelete(pk) ==
    /\ ~Serving
    /\ pk \in DOMAIN recipes
    /\ recipes' = Remove(recipes, pk)
    /\ meals' = [m \in DOMAIN meals |->
                    IF meals[m].recipe = Some(pk)
                    THEN [meals[m] EXCEPT !.recipe = None] ELSE meals[m]]
    /\ UNCHANGED <<mealSeq, recipeSeq, view, gen, call, prev>>

MealCreate(name, recipe) ==
    /\ ~Serving
    /\ mealSeq < MaxMealRows
    /\ recipe \in RecipeRefs
    /\ mealSeq' = mealSeq + 1
    /\ meals' = meals @@ (mealSeq' :> [name |-> name, recipe |-> recipe])
    /\ UNCHANGED <<recipes, recipeSeq, view, gen, call, prev>>

MealUpdate(pk, name, recipe) ==
    /\ ~Serving
    /\ pk \in DOMAIN meals
    /\ recipe \in RecipeRefs
    /\ meals' = [meals EXCEPT ![pk] = [name |-> name, recipe |-> recipe]]
    /\ UNCHANGED <<recipes, mealSeq, recipeSeq, view, gen, call, prev>>

MealDelete(pk) ==
    /\ ~Serving
    /\ pk \in DOMAIN meals
    /\ meals' = Remove(meals, pk)
    /\ UNCHANGED <<recipes, mealSeq, recipeSeq, view, gen, call, prev>>

-----------------------------------------------------------------------------
(* generate_weekly_plan, one step per statement *)

\* mutant: choices is built from a second reading of meals
GenMaterialize_ReadTwice ==
    /\ gen.pc = "materialize"
    /\ \E rows \in QueryMeals :
           LET items == IterRead(gen.src, gen.reads, rows)
               again == IterRead(gen.src, gen.reads + 1, rows)
           IN  gen' = [gen EXCEPT !.pc = "loop", !.items = items,
                                  !.reads = @ + 2, !.choices = Choices(again),
                                  !.plan = <<>>, !.i = 0]
    /\ UNCHANGED <<meals, recipes, mealSeq, recipeSeq, view, call, prev>>

\* items = list(meals); choices = ...; plan = []
GenMaterialize ==
    /\ gen.pc = "materialize"
    /\ \E rows \in QueryMeals :
           LET items == IterRead(gen.src, gen.reads, rows)
           IN  gen' = [gen EXCEPT !.pc = "loop", !.items = items,
                                  !.reads = @ + 1, !.choices = Choices(items),
                                  !.plan = <<>>, !.i = 0]
    /\ UNCHANGED <<meals, recipes, mealSeq, recipeSeq, view, call, prev>>

\* mutant: the day is offset by the index drawn, not by i
GenDay_DayByDraw ==
    /\ gen.pc = "loop"
    /\ gen.i < PlanDays
    /\ gen.choices # <<>>
    /\ \E r \in 1..Len(gen.choices) :
           LET day == DateShift(gen.start, r - 1)
           IN  IF day.exc # ""
               THEN gen' = [gen EXCEPT !.pc = "raised", !.exc = day.exc]
               ELSE gen' = [gen EXCEPT
                               !.plan = Append(@, [label |-> Label(day.val[1]),
                                                   meal |-> gen.choices[r]]),
                               !.i = @ + 1]
    /\ UNCHANGED <<meals, recipes, mealSeq, recipeSeq, view, call, prev>>

\* one iteration of "for i in range(7)"; random.choice draws any element
GenDay ==
    /\ gen.pc = "loop"
    /\ gen.i < PlanDays
    /\ LET day == DateShift(gen.start, gen.i)
       IN  IF day.exc # ""
           THEN gen' = [gen EXCEPT !.pc = "raised", !.exc = day.exc]
           ELSE IF gen.choices = <<>>
           THEN gen' = [gen EXCEPT !.pc = "raised", !.exc = "IndexError"]
           ELSE \E r \in 1..Len(gen.choices) :
                    gen' = [gen EXCEPT
                               !.plan = Append(@, [label |-> Label(day.val[1]),
                                                   meal |-> gen.choices[r]]),
                               !.i = @ + 1]
    /\ UNCHANGED <<meals, recipes, mealSeq, recipeSeq, view, call, prev>>

\* return plan
GenReturn ==
    /\ gen.pc = "loop"
    /\ gen.i = PlanDays
    /\ gen' = [gen EXCEPT !.pc = "returned"]
    /\ UNCHANGED <<meals, recipes, mealSeq, recipeSeq, view, call, prev>>

GenFinished == gen.pc \in {"returned", "raised"}

-----------------------------------------------------------------------------
(* weekly_plan *)

\* start = parse_week_start(...); meals = <lazy QuerySet>; enter the generator
WeeklyPlanRequest(param, today) ==
    /\ ~Serving
    /\ LET start == parse_week_start(param, today)
       IN  IF start.exc # ""
           THEN /\ view' = [ViewIdle EXCEPT !.pc = "error", !.param = param,
                                            !.today = today, !.status = 500,
                                            !.before = <<meals, recipes>>]
                /\ gen' = gen
           ELSE /\ view' = [ViewIdle EXCEPT !.pc = "generating", !.param = param,
                                            !.today = today, !.start = start.val[1],
                                            !.before = <<meals, recipes>>]
                /\ gen' = GenEnter("view", [kind |-> "queryset", data |-> <<>>],
                                   start.val[1])
    /\ UNCHANGED <<meals, recipes, mealSeq, recipeSeq, call, prev>>

\* any(m for _, m in plan): a Meal instance is truthy, None is not
HasMeals(plan) == plan # <<>> /\ \E k \in 1..Len(plan) : plan[k].meal # None

\* context = {...}; return render(...)
WeeklyPlanRender ==
    /\ view.pc = "generating"
    /\ gen.pc = "returned"
    /\ view' = [view EXCEPT !.pc = "rendered", !.status = 200,
                            !.context = Some([plan |-> gen.plan,
                                              has_meals |-> HasMeals(gen.plan),
                                              start |-> view.start])]
    /\ UNCHANGED <<meals, recipes, mealSeq, recipeSeq, gen, call, prev>>

\* an exception of the generator leaves the view: the response is a 500
WeeklyPlanFail ==
    /\ view.pc = "generating"
    /\ gen.pc = "raised"
    /\ view' = [view EXCEPT !.pc = "error", !.status = 500]
    /\ UNCHANGED <<meals, recipes, mealSeq, recipeSeq, gen, call, prev>>

\* the response is sent and the frames are dropped
WeeklyPlanDone ==
    /\ view.pc \in {"rendered", "error"}
    /\ view' = ViewIdle
    /\ gen' = GenIdle
    /\ UNCHANGED <<meals, recipes, mealSeq, recipeSeq, call, prev>>

-----------------------------------------------------------------------------
(* Direct calls of the services *)

CallStartOfWeek(date) ==
    /\ gen.pc = "idle"
    /\ call' = [NoCall EXCEPT !.fn = "start_of_week", !.date = date,
                              !.result = start_of_week(date)]
    /\ prev' = None
    /\ UNCHANGED <<meals, recipes, mealSeq, recipeSeq, view, gen>>

CallParseWeekStart(param, today) ==
    /\ gen.pc = "idle"
    /\ call' = [NoCall EXCEPT !.fn = "parse_week_start", !.param = param,
                              !.date = today,
                              !.result = parse_week_start(param, today)]
    /\ prev' = None
    /\ UNCHANGED <<meals, recipes, mealSeq, recipeSeq, view, gen>>

CallGenerate(kind, list, start) ==
    /\ gen.pc = "idle"
    /\ gen' = GenEnter("caller", [kind |-> kind, data |-> list], start)
    /\ call' = NoCall
    /\ UNCHANGED <<meals, recipes, mealSeq, recipeSeq, view, prev>>

PlanLabels(plan) == [k \in 1..Len(plan) |-> plan[k].label]

\* the caller takes the result; its start and labels are kept for comparison
\* with the next call
CallGenerateDone ==
    /\ gen.caller = "caller"
    /\ GenFinished
    /\ prev' = Some([start |-> gen.start, exc |-> gen.exc,
                     labels |-> PlanLabels(gen.plan)])
    /\ gen' = GenIdle
    /\ UNCHANGED <<meals, recipes, mealSeq, recipeSeq, view, call>>

-----------------------------------------------------------------------------
(* Specifications *)

Init ==
    /\ meals = <<>>
    /\ recipes = <<>>
    /\ mealSeq = 0
    /\ recipeSeq = 0
    /\ view = ViewIdle
    /\ gen = GenIdle
    /\ call = NoCall
    /\ prev = None

ViewTodays == {Ymd2Ord(2024, 7, 10), Ymd2Ord(2024, 7, 14)}

ViewParams ==
    {None,
     Some(<<"n", "o", "t", "-", "a", "-", "d", "a", "t", "e">>),
     Some(<<"2", "0", "2", "4", "-", "0", "1", "-", "0", "3">>),
     Some(<<"2", "0", "2", "4", "0", "7", "0", "8">>),
     Some(<<"9", "9", "9", "9", "-", "1", "2", "-", "2", "8">>)}

\* the web application
Next ==
    \/ \E name \in RecipeNames : RecipeCreate(name)
    \/ \E pk \in DOMAIN recipes : RecipeDelete(pk)
    \/ \E k \in 1..Len(MealNames), recipe \in RecipeRefs :
           MealCreate(MealNames[k], recipe)
    \/ \E pk \in DOMAIN meals, k \in 1..Len(MealNames), recipe \in RecipeRefs :
           MealUpdate(pk, MealNames[k], recipe)
    \/ \E pk \in DOMAIN meals : MealDelete(pk)
    \/ \E param \in ViewParams, today \in ViewTodays :
           WeeklyPlanRequest(param, today)
    \/ GenMaterialize
    \/ GenDay
    \/ GenReturn
    \/ WeeklyPlanRender
    \/ WeeklyPlanFail
    \/ WeeklyPlanDone

Spec == Init /\ [][Next]_vars

\* the services called directly, as the unit tests call them
NextServices ==
    \/ \E date \in Dates : CallStartOfWeek(date)
    \/ \E param \in Params, today \in Dates : CallParseWeekStart(param, today)
    \/ \E kind \in {"list", "iterator"}, list \in MealLists, start \in GenStarts :
           CallGenerate(kind, list, start)
    \/ GenMaterialize
    \/ GenDay
    \/ GenReturn
    \/ CallGenerateDone

SpecServices == Init /\ [][NextServices]_vars

-----------------------------------------------------------------------------
(* What the properties are stated with *)

\* 2024-07-08 is a Monday (tests/test_services.py)
RefMonday == Ymd2Ord(2024, 7, 8)

\* days from the Monday on or before date, by distance to the reference Monday
DaysSinceMonday(date) == (date - RefMonday) % 7

IsMonday(date) == DaysSinceMonday(date) = 0

EnglishWeekdays ==
    << <<"M", "o", "n", "d", "a", "y">>,
       <<"T", "u", "e", "s", "d", "a", "y">>,
       <<"W", "e", "d", "n", "e", "s", "d", "a", "y">>,
       <<"T", "h", "u", "r", "s", "d", "a", "y">>,
       <<"F", "r", "i", "d", "a", "y">>,
       <<"S", "a", "t", "u", "r", "d", "a", "y">>,
       <<"S", "u", "n", "d", "a", "y">> >>

\* label reads "<English weekday of date> (<a string that parses to date>)"
LabelIsFor(label, date) ==
    LET n == Len(label)
    IN  /\ n >= 13
        /\ SubSeq(label, 1, n - 13) = EnglishWeekdays[DaysSinceMonday(date) + 1]
        /\ label[n - 12] = " "
        /\ label[n - 11] = "("
        /\ FromIsoFormat(SubSeq(label, n - 10, n - 1)) = Returned(date)
        /\ label[n] = ")"

Elems(seq) == {seq[k] : k \in 1..Len(seq)}

PlanMeals(plan) == {plan[k].meal : k \in 1..Len(plan)}

\* the raw string of an Optional parameter parses as an ISO calendar date
Parses(param) ==
    param # None /\ param[1] # <<>> /\ FromIsoFormat(param[1]).exc = ""

DirectCall == gen.src.kind \in {"list", "iterator"} /\ gen.pc # "idle"

-----------------------------------------------------------------------------
(* Properties *)

\* C1: for every start date and meal collection, generate_weekly_plan
\* returns exactly 7 entries, entry i labelled with the English weekday and
\* the ISO date of start + i days.
C1_SevenConsecutiveDays ==
    (DirectCall /\ GenFinished) =>
        /\ gen.pc = "returned"
        /\ Len(gen.plan) = 7
        /\ \A i \in 0..6 : LabelIsFor(gen.plan[i + 1].label, gen.start + i)

\* C2: parse_week_start never raises, and for an absent, empty or
\* unparseable raw string it returns the Monday of the week containing
\* today: today minus today's zero-based weekday offset.
C2_FallbackIsMondayOfToday ==
    call.fn = "parse_week_start" =>
        /\ call.result.exc = ""
        /\ ~Parses(call.param) =>
               call.result = Returned(call.date - DaysSinceMonday(call.date))

C2_Witness ==
    /\ call.fn = "parse_week_start"
    /\ call.param = Some(<<"n", "o", "t", "-", "a", "-", "d", "a", "t", "e">>)
    /\ call.date = Ymd2Ord(2024, 7, 10)
    /\ call.result = Returned(Ymd2Ord(2024, 7, 8))

\* C3: a raw string that parses as the ISO date D makes parse_week_start
\* return exactly D, whatever today and D's weekday are, and weekly_plan
\* hands that same D to the generator and to the rendering context.
C3_ExplicitStartPassedThrough ==
    (view.pc # "idle" /\ Parses(view.param)) =>
        /\ Returned(view.start) = FromIsoFormat(view.param[1])
        /\ Len(view.param[1]) = 10 => IsoFormat(view.start) = view.param[1]
        /\ gen.pc # "idle" => gen.start = view.start
        /\ view.context # None => view.context[1].start = view.start

C3_Witness ==
    /\ view.pc = "rendered"
    /\ view.param = Some(<<"2", "0", "2", "4", "-", "0", "1", "-", "0", "3">>)
    /\ view.context[1].start = Ymd2Ord(2024, 1, 3)
    /\ ~IsMonday(view.context[1].start)
    /\ gen.start = Ymd2Ord(2024, 1, 3)

\* C4 as claimed: the date parse_week_start returns is always a Monday.
C4_AlwaysMonday ==
    call.fn = "parse_week_start" =>
        call.result.exc = "" /\ IsMonday(call.result.val[1])

\* C4 as amended: the date parse_week_start returns is a Monday unless the
\* raw string parses as an ISO date D; then it is D, whatever D's weekday.
C4_MondayUnlessExplicit ==
    call.fn = "parse_week_start" =>
        /\ call.result.exc = ""
        /\ IF Parses(call.param)
           THEN call.result = FromIsoFormat(call.param[1])
           ELSE IsMonday(call.result.val[1])

C4_Witness ==
    /\ call.fn = "parse_week_start"
    /\ call.param = Some(<<"2", "0", "2", "4", "-", "0", "2", "-", "2", "9">>)
    /\ call.result = Returned(Ymd2Ord(2024, 2, 29))
    /\ DaysSinceMonday(call.result.val[1]) = 3

\* C5: start_of_week(D) is a Monday with start_of_week(D) <= D <=
\* start_of_week(D) + 6: it is D minus D's zero-based weekday offset.
C5_StartOfWeekIsMonday ==
    call.fn = "start_of_week" =>
        /\ call.result.exc = ""
        /\ LET s == call.result.val[1]
           IN  /\ IsMonday(s)
               /\ s <= call.date
               /\ call.date <= s + 6
               /\ s = call.date - DaysSinceMonday(call.date)

C5_Witness ==
    /\ call.fn = "start_of_week"
    /\ call.date = Ymd2Ord(2024, 7, 10)
    /\ call.result = Returned(Ymd2Ord(2024, 7, 8))

\* C6: with a non-empty meal collection every entry of the plan holds a meal
\* of the collection, never None and never a meal outside it.
C6_SelectionWithinPool ==
    (DirectCall /\ gen.src.data # <<>>) =>
        /\ \A k \in 1..Len(gen.plan) :
               /\ gen.plan[k].meal # None
               /\ gen.plan[k].meal[1] \in Elems(gen.src.data)
        /\ gen.pc = "returned" => Len(gen.plan) = 7

C6_Witness ==
    /\ DirectCall
    /\ gen.pc = "returned"
    /\ gen.src.data = <<1, 2>>
    /\ PlanMeals(gen.plan) = {Some(1), Some(2)}

\* C7: with one selectable element the plan is determined: an empty
\* collection gives 7 entries of None, a collection holding exactly one meal
\* M gives 7 entries of M.
C7_SingletonPoolDeterministic ==
    (DirectCall /\ gen.pc = "returned") =>
        /\ gen.src.data = <<>> =>
               Len(gen.plan) = 7 /\ PlanMeals(gen.plan) = {None}
        /\ \A m \in SampleMeals :
               Elems(gen.src.data) = {m} =>
                   Len(gen.plan) = 7 /\ PlanMeals(gen.plan) = {Some(m)}

C7_Witness ==
    /\ DirectCall
    /\ gen.pc = "returned"
    /\ gen.src.data = <<2>>
    /\ Len(gen.plan) = 7
    /\ gen.plan[7].meal = Some(2)

\* C8: two calls of generate_weekly_plan with the same start date end alike
\* and their plans have the same length and the same labels, entry by entry,
\* whatever the draws and the meal collections of the two calls.
C8_SameStartSameLabels ==
    (DirectCall /\ prev # None /\ prev[1].start = gen.start) =>
        /\ \A k \in 1..Len(gen.plan) :
               /\ k <= Len(prev[1].labels)
               /\ gen.plan[k].label = prev[1].labels[k]
        /\ GenFinished =>
               /\ prev[1].exc = gen.exc
               /\ Len(prev[1].labels) = Len(gen.plan)

C8_Witness ==
    /\ DirectCall
    /\ gen.pc = "returned"
    /\ prev # None
    /\ prev[1].start = gen.start
    /\ Len(prev[1].labels) = 7
    /\ PlanMeals(gen.plan) = {Some(1), Some(2)}

\* C9: after any creations and deletions of meals a weekly_plan request
\* yields a plan of 7 entries and a has_meals flag that is true exactly when
\* the plan has a non-null meal, which is exactly when a meal is stored.
C9_PlanAndFlagFollowStorage ==
    view.pc \in {"rendered", "error"} =>
        /\ view.context # None
        /\ Len(view.context[1].plan) = 7
        /\ view.context[1].has_meals <=>
               (\E k \in 1..7 : view.context[1].plan[k].meal # None)
        /\ view.context[1].has_meals <=> (DOMAIN meals # {})

\* C10: a weekly_plan request leaves the Meal and Recipe tables as they
\* were, and the generator reads its input once, before any draw.
C10_StorageUntouchedReadOnce ==
    /\ view.pc # "idle" => <<meals, recipes>> = view.before
    /\ gen.pc = "materialize" => gen.reads = 0 /\ gen.plan = <<>>
    /\ gen.pc \in {"loop", "returned", "raised"} => gen.reads = 1
    /\ gen.plan # <<>> => gen.reads = 1

C10_Witness ==
    /\ view.pc = "rendered"
    /\ DOMAIN meals # {}
    /\ DOMAIN recipes # {}
    /\ gen.reads = 1
    /\ Len(gen.plan) = 7

=============================================================================
